---------------------------- MODULE Spec2Model ----------------------------
(***************************************************************************)
(* Speech-to-text Streamlit application (app.py) and the FFmpeg preflight  *)
(* script (setup_ffmpeg.py).                                               *)
(*                                                                         *)
(* Spec      : the request path of app.py.  One behaviour is a sequence of *)
(*             script runs in which the "Transcribe Audio" button was      *)
(*             pressed; each run executes main() -> process_audio_file()   *)
(*             -> AudioConverter.convert_to_wav() ->                       *)
(*             SpeechToTextModel.transcribe().  The st.cache_resource      *)
(*             cache of load_funasr_model lives across the runs.           *)
(* SpecSetup : one execution of setup_ffmpeg.py.                           *)
(*                                                                         *)
(* File names and paths are sequences of one-character strings, so that    *)
(* Path.suffix, str.lower and os.path.join are computed character by       *)
(* character.  Transcripts and messages are strings.                       *)
(***************************************************************************)
EXTENDS Integers, Sequences, FiniteSets, TLC

VARIABLES
    pc,                 \* position of the current script run of app.py
    reqCount,           \* number of button presses so far
    uploadName,         \* uploaded_file.name
    ffmpegOnPath,       \* shutil.which("ffmpeg") is not None
    tempDir,            \* temp_dir of the current call of process_audio_file
    fsDirs,             \* temporary directories that exist on the filesystem
    fsFiles,            \* files that exist inside temporary directories
    file_extension,     \* local of process_audio_file
    input_path,         \* local of process_audio_file
    transcription_path, \* local of process_audio_file
    convertCalls,       \* calls of converter.convert_to_wav in this run
    convertRet,         \* "none", "True" or "False": what convert_to_wav returned
    ffmpegRuns,         \* invocations of the external tool (ffmpeg ... .run)
    transcribeCalls,    \* calls of speech_model.transcribe in this run
    generateCalls,      \* calls of model.generate in this run
    modelOut,           \* what model.generate did: "none", "raised", "result"
    result,             \* the value model.generate returned
    errors,             \* st.error messages shown in this run, in order
    selfModel,          \* SpeechToTextModel.model of this run (0 is None)
    cacheResource,      \* st.cache_resource entry of load_funasr_model (0: empty)
    constructorRuns,    \* calls of AutoModel(...) in this process
    constructorRunsRun, \* calls of AutoModel(...) in this run
    transcription,      \* value returned by process_audio_file
    outcome,            \* how process_audio_file was left
    persisted,          \* the upload of this run was written to input_path
    constructed,        \* calls of AutoModel(...) that returned a model
    spc,                \* position of setup_ffmpeg.py
    envSharingMode,     \* os.environ.get("STREAMLIT_SHARING_MODE")
    envHeadless,        \* os.environ.get("STREAMLIT_SERVER_HEADLESS")
    platformSystem,     \* platform.system()
    installCalls,       \* calls of install_ffmpeg_linux
    aptRuns,            \* subprocess.run(["sudo", "apt-get", ...]) invocations
    setupRet,           \* value returned by setup_ffmpeg
    exitCode,           \* sys.exit argument of the script
    foundAtStart        \* is_ffmpeg_installed() when the script started

appVars == <<pc, reqCount, uploadName, tempDir, fsDirs, fsFiles,
             file_extension, input_path, transcription_path, convertCalls,
             convertRet, ffmpegRuns, transcribeCalls, generateCalls, modelOut,
             result, errors, selfModel, cacheResource, constructorRuns,
             constructorRunsRun, transcription, outcome, persisted,
             constructed>>

setupVars == <<spc, envSharingMode, envHeadless, platformSystem, installCalls,
               aptRuns, setupRet, exitCode, foundAtStart>>

vars == <<appVars, setupVars, ffmpegOnPath>>

----------------------------------------------------------------------------
(* Bounds *)

\* Number of button presses (script runs) in one behaviour.
MaxRequests == 2

----------------------------------------------------------------------------
(* Characters, str.lower, Path.suffix, os.path.join *)

UpperChars == <<"A","B","C","D","E","F","G","H","I","J","K","L","M",
                "N","O","P","Q","R","S","T","U","V","W","X","Y","Z">>

LowerChars == <<"a","b","c","d","e","f","g","h","i","j","k","l","m",
                "n","o","p","q","r","s","t","u","v","w","x","y","z">>

\* str.lower on one character
LowerChar(c) ==
    IF \E i \in 1..Len(UpperChars) : UpperChars[i] = c
    THEN LowerChars[CHOOSE i \in 1..Len(UpperChars) : UpperChars[i] = c]
    ELSE c

\* str.lower
LowerStr(s) == [i \in 1..Len(s) |-> LowerChar(s[i])]

\* str.rfind(c): the last index of c in s, 0 when absent (Python: -1)
RFind(s, c) ==
    IF \E i \in 1..Len(s) : s[i] = c
    THEN CHOOSE i \in 1..Len(s) : s[i] = c /\ \A j \in (i+1)..Len(s) : s[j] # c
    ELSE 0

\* PurePath.name: the final path component
PathName(p) == SubSeq(p, RFind(p, "/") + 1, Len(p))

\* PurePath.suffix: from the last dot of the final component, unless that dot
\* is its first or its last character
Suffix(p) ==
    LET name == PathName(p)
        i == RFind(name, ".")
    IN  IF 1 < i /\ i < Len(name) THEN SubSeq(name, i, Len(name)) ELSE <<>>

\* os.path.join(a, b) (posixpath)
PathJoin(a, b) ==
    IF Len(b) > 0 /\ b[1] = "/" THEN b
    ELSE IF Len(a) = 0 \/ a[Len(a)] = "/" THEN a \o b
    ELSE a \o <<"/">> \o b

\* whether file or directory p lies inside directory d
Inside(p, d) ==
    /\ Len(p) > Len(d) + 1
    /\ SubSeq(p, 1, Len(d)) = d
    /\ p[Len(d) + 1] = "/"

----------------------------------------------------------------------------
(* Formats *)

ExtWav  == <<".","w","a","v">>
ExtMp3  == <<".","m","p","3">>
ExtFlac == <<".","f","l","a","c">>
ExtM4a  == <<".","m","4","a">>
ExtOgg  == <<".","o","g","g">>

\* a native set that forgets .wav
FUNASR_SUPPORTED_FORMATS_NoWav == {ExtMp3, ExtFlac, ExtM4a, ExtOgg}

FUNASR_SUPPORTED_FORMATS == {ExtWav, ExtMp3, ExtFlac, ExtM4a, ExtOgg}

ConvertedWav == <<"c","o","n","v","e","r","t","e","d",".","w","a","v">>

\* Declared file names: a stem followed by an extension.
Stems == { <<"c","l","i","p">>,
           <<"c","o","n","v","e","r","t","e","d">>,
           ConvertedWav,
           <<>> }

Extensions == { ExtWav, <<".","W","A","V">>, <<".","W","a","v">>,
                ExtMp3, ExtFlac, ExtM4a, ExtOgg, <<".","O","G","G">>,
                <<".","w","m","a">>, <<".","a","a","c">>,
                <<".","m","p","4">>, <<".","M","P","4">>,
                <<".","a","v","i">>, <<".","m","k","v">>,
                <<".","m","o","v">>, <<".","w","m","v">>,
                <<".","w","e","b","m">>, <<".","3","g","p">>,
                <<".">>, <<>> }

\* uploaded_file.name: a bare file name (no path separator; not empty, not ".")
UploadNames == { s \o e : s \in Stems, e \in Extensions } \ { <<>>, <<".">> }

\* the path tempfile.TemporaryDirectory() creates for the n-th request
DigitChars == <<"0","1","2","3","4","5","6","7","8","9">>

MkTempDir(n) == <<"/","t","m","p","/","t","m","p">> \o <<DigitChars[(n % 10) + 1]>>


----------------------------------------------------------------------------
(* Python values at the model boundary *)

NoKeys == [k \in {} |-> ""]

PyNone    == [t |-> "None", s |-> "", n |-> 0, d |-> NoKeys]
PyStr(x)  == [t |-> "str",  s |-> x,  n |-> 0, d |-> NoKeys]
PyInt(x)  == [t |-> "int",  s |-> "", n |-> x, d |-> NoKeys]
PyDict(f) == [t |-> "dict", s |-> "", n |-> 0, d |-> f]

\* str(n) for an integer: its decimal digits
RECURSIVE NatToStr(_)
NatToStr(n) ==
    IF n < 10 THEN DigitChars[n + 1]
    ELSE NatToStr(n \div 10) \o DigitChars[(n % 10) + 1]

IntToStr(n) == IF n < 0 THEN "-" \o NatToStr(-n) ELSE NatToStr(n)

\* str(d) for a dict of at most one key
DictToStr(f) ==
    IF DOMAIN f = {} THEN "{}"
    ELSE LET k == CHOOSE k \in DOMAIN f : TRUE
         IN  "{'" \o k \o "': '" \o f[k] \o "'}"

\* str(v)
PyToStr(v) ==
    CASE v.t = "str"  -> v.s
      [] v.t = "int"  -> IntToStr(v.n)
      [] v.t = "dict" -> DictToStr(v.d)
      [] OTHER        -> "None"

\* bool(v), as in "if transcription:"
Truthy(v) ==
    CASE v.t = "str"  -> v.s # ""
      [] v.t = "int"  -> v.n # 0
      [] v.t = "dict" -> DOMAIN v.d # {}
      [] OTHER        -> FALSE

\* Values model.generate may return: None, or a list of items.
Texts == {"hello", ""}

Items == { PyStr(x) : x \in Texts }
         \cup { PyInt(42), PyInt(0), PyInt(-7), PyInt(120), PyNone }
         \cup { PyDict([k \in {"text"} |-> x]) : x \in Texts }
         \cup { PyDict([k \in {"key"} |-> "hello"]), PyDict(NoKeys) }

NoResult == [isNone |-> TRUE, items |-> <<>>]

ModelResults ==
    {NoResult}
    \cup {[isNone |-> FALSE, items |-> <<>>]}
    \cup {[isNone |-> FALSE, items |-> <<a>>] : a \in Items}
    \cup {[isNone |-> FALSE, items |-> <<a, PyStr("second")>>] :
             a \in {PyStr("hello"), PyInt(42), PyDict([k \in {"text"} |-> "hello"])}}

\* the extraction that always stringifies the first result
ExtractTextStr(r) ==
    IF ~r.isNone /\ Len(r.items) > 0 THEN PyStr(PyToStr(r.items[1])) ELSE PyNone

\* transcribe, lines 148-156: the transcript extracted from generate's result
ExtractText(r) ==
    IF ~r.isNone /\ Len(r.items) > 0
    THEN IF r.items[1].t = "dict" /\ "text" \in DOMAIN r.items[1].d
         THEN PyStr(r.items[1].d["text"])
         ELSE IF r.items[1].t = "str"
         THEN r.items[1]
         ELSE PyStr(PyToStr(r.items[1]))
    ELSE PyNone

----------------------------------------------------------------------------
(* Exceptions *)

\* Classes of what can be raised.  st.stop() raises StopException, a
\* script-control exception derived from BaseException, not from Exception.
ExceptionClasses == {"Exception", "OSError", "ffmpeg.Error"}

\* a handler that also catches script-control exceptions
ExceptExceptionBare(e) == TRUE

\* "except Exception": whether a raised e is caught
ExceptException(e) == e \in ExceptionClasses

----------------------------------------------------------------------------
(* AudioConverter *)

\* a converter that does not look for the tool first
convert_to_wav_NoCheck(avail, run) ==
    CASE run = "ok"           -> [ret |-> TRUE,  errs |-> <<>>, runs |-> 1]
      [] run = "ffmpeg.Error" -> [ret |-> FALSE, errs |-> <<"ffmpeg_error">>, runs |-> 1]
      [] OTHER                -> [ret |-> FALSE, errs |-> <<"conversion_unexpected">>, runs |-> 1]

\* a converter that runs the tool again after a failure
convert_to_wav_Retry(avail, run) ==
    IF ~avail
    THEN [ret |-> FALSE, errs |-> <<"ffmpeg_missing">>, runs |-> 0]
    ELSE CASE run = "ok"           -> [ret |-> TRUE,  errs |-> <<>>, runs |-> 1]
           [] run = "ffmpeg.Error" -> [ret |-> FALSE, errs |-> <<"ffmpeg_error">>, runs |-> 2]
           [] OTHER                -> [ret |-> FALSE, errs |-> <<"conversion_unexpected">>, runs |-> 2]

\* AudioConverter.convert_to_wav: avail is is_ffmpeg_available(), run is what
\* the external tool does when it is invoked.  ret is the returned value, errs
\* the st.error messages, runs the number of invocations of the tool.
convert_to_wav(avail, run) ==
    IF ~avail
    THEN [ret |-> FALSE, errs |-> <<"ffmpeg_missing">>, runs |-> 0]
    ELSE CASE run = "ok"           -> [ret |-> TRUE,  errs |-> <<>>, runs |-> 1]
           [] run = "ffmpeg.Error" -> [ret |-> FALSE, errs |-> <<"ffmpeg_error">>, runs |-> 1]
           [] OTHER                -> [ret |-> FALSE, errs |-> <<"conversion_unexpected">>, runs |-> 1]

FfmpegOutcomes == {"ok", "ffmpeg.Error", "Exception"}


----------------------------------------------------------------------------
(* process_audio_file and main *)

\* an extension taken without lowercasing
FileExtension_NoLower(name) == Suffix(name)

\* process_audio_file, line 179: Path(uploaded_file.name).suffix.lower()
FileExtension(name) == LowerStr(Suffix(name))

\* a directory scope that leaves the directory behind
TemporaryDirectory_exit_Keep(dirs, d) == dirs

\* tempfile.TemporaryDirectory.__exit__: the directory is removed
TemporaryDirectory_exit(dirs, d) == dirs \ {d}

\* ... together with everything inside it
RemoveTree(files, d) == {f \in files : ~Inside(f, d)}

\* a dispatch that goes on to transcribe whatever the converter returned
AfterConvert_Always(ok) == "transcribe"

\* process_audio_file, lines 196-199: "if not convert_to_wav(...): return None"
AfterConvert(ok) == IF ~ok THEN "return" ELSE "transcribe"

\* a cache that never holds the model
CacheHit_Never(cache) == FALSE

\* st.cache_resource on load_funasr_model: whether the call is served from
\* the cache instead of running the function body
CacheHit(cache) == cache # 0

\* The with-block of process_audio_file is left: how is "return", "exception"
\* or "stop"; the temporary directory is removed on the way out.
LeaveProcess(how, value, files) ==
    /\ fsDirs' = TemporaryDirectory_exit(fsDirs, tempDir)
    /\ fsFiles' = RemoveTree(files, tempDir)
    /\ transcription' = value
    /\ outcome' = how
    /\ pc' = IF how = "return" THEN "render" ELSE "done"

\* main, lines 228-229 and 246-247: the button is pressed with an uploaded
\* file; process_audio_file, lines 179-182: the extension is taken and the
\* temporary directory is created.
ClickTranscribe ==
    /\ pc \in {"idle", "done"}
    /\ reqCount < MaxRequests
    /\ \E name \in UploadNames, avail \in BOOLEAN :
          /\ uploadName' = name
          /\ ffmpegOnPath' = avail
          /\ file_extension' = FileExtension(name)
    /\ reqCount' = reqCount + 1
    /\ tempDir' = MkTempDir(reqCount + 1)
    /\ fsDirs' = fsDirs \cup {tempDir'}
    /\ selfModel' = 0
    /\ input_path' = <<>>
    /\ transcription_path' = <<>>
    /\ convertCalls' = <<>>
    /\ convertRet' = "none"
    /\ ffmpegRuns' = <<>>
    /\ transcribeCalls' = <<>>
    /\ generateCalls' = <<>>
    /\ modelOut' = "none"
    /\ result' = NoResult
    /\ errors' = <<>>
    /\ constructorRunsRun' = 0
    /\ transcription' = PyNone
    /\ outcome' = "running"
    /\ persisted' = FALSE
    /\ pc' = "persist"
    /\ UNCHANGED <<fsFiles, cacheResource, constructorRuns, constructed,
                   setupVars>>

\* process_audio_file, lines 184-186: the upload is written into the
\* temporary directory, or open/write raises OSError, which nothing catches.
PersistUpload ==
    /\ pc = "persist"
    /\ input_path' = PathJoin(tempDir, uploadName)
    /\ \E ok \in BOOLEAN :
          IF ok
          THEN /\ fsFiles' = fsFiles \cup {input_path'}
               /\ persisted' = TRUE
               /\ pc' = "dispatch"
               /\ UNCHANGED <<fsDirs, transcription, outcome>>
          ELSE /\ LeaveProcess("exception", PyNone, fsFiles)
               /\ UNCHANGED persisted
    /\ UNCHANGED <<reqCount, uploadName, ffmpegOnPath, tempDir, file_extension,
                   transcription_path, convertCalls, convertRet, ffmpegRuns,
                   transcribeCalls, generateCalls, modelOut, result, errors,
                   selfModel, cacheResource, constructorRuns,
                   constructorRunsRun, constructed, setupVars>>

\* process_audio_file, lines 189-194: native formats go to the model as they
\* are, every other extension goes through the converter.
Dispatch ==
    /\ pc = "dispatch"
    /\ IF file_extension \in FUNASR_SUPPORTED_FORMATS
       THEN /\ transcription_path' = input_path
            /\ pc' = "transcribe"
       ELSE /\ transcription_path' = transcription_path
            /\ pc' = "convert"
    /\ UNCHANGED <<reqCount, uploadName, ffmpegOnPath, tempDir, fsDirs, fsFiles,
                   file_extension, input_path, convertCalls, convertRet,
                   ffmpegRuns, transcribeCalls, generateCalls, modelOut, result,
                   errors, selfModel, cacheResource, constructorRuns,
                   constructorRunsRun, transcription, outcome, persisted,
                   constructed, setupVars>>

\* process_audio_file, lines 194-200, with the whole call of convert_to_wav
\* (lines 87-113).  A failed run of the tool may leave an output file behind.
Convert ==
    /\ pc = "convert"
    /\ \E run \in FfmpegOutcomes, partial \in BOOLEAN :
          LET output_path == PathJoin(tempDir, ConvertedWav)
              call == [input |-> input_path, output |-> output_path]
              r == convert_to_wav(ffmpegOnPath, run)
              files == IF r.runs > 0 /\ (run = "ok" \/ partial)
                       THEN fsFiles \cup {output_path} ELSE fsFiles
          IN  /\ convertCalls' = Append(convertCalls, call)
              /\ ffmpegRuns' = ffmpegRuns \o [i \in 1..r.runs |-> call]
              /\ errors' = errors \o r.errs
              /\ convertRet' = IF r.ret THEN "True" ELSE "False"
              /\ IF AfterConvert(r.ret) = "transcribe"
                 THEN /\ transcription_path' = output_path
                      /\ fsFiles' = files
                      /\ pc' = "transcribe"
                      /\ UNCHANGED <<fsDirs, transcription, outcome>>
                 ELSE /\ LeaveProcess("return", PyNone, files)
                      /\ UNCHANGED transcription_path
    /\ UNCHANGED <<reqCount, uploadName, ffmpegOnPath, tempDir, file_extension,
                   input_path, transcribeCalls, generateCalls, modelOut, result,
                   selfModel, cacheResource, constructorRuns,
                   constructorRunsRun, persisted, constructed, setupVars>>

\* transcribe, line 145: get_model (lines 130-132) and load_funasr_model
\* (lines 34-58).  A failed construction shows "Error loading model" and calls
\* st.stop(); the StopException passes transcribe's "except Exception".
TranscribeGetModel ==
    /\ pc = "transcribe"
    /\ transcribeCalls' = Append(transcribeCalls, transcription_path)
    /\ IF selfModel # 0
       THEN /\ pc' = "generate"
            /\ UNCHANGED <<selfModel, cacheResource, constructorRuns,
                           constructorRunsRun, constructed, errors, fsDirs,
                           fsFiles, transcription, outcome>>
       ELSE IF CacheHit(cacheResource)
       THEN /\ selfModel' = cacheResource
            /\ pc' = "generate"
            /\ UNCHANGED <<cacheResource, constructorRuns, constructorRunsRun,
                           constructed, errors, fsDirs, fsFiles, transcription,
                           outcome>>
       ELSE /\ constructorRuns' = constructorRuns + 1
            /\ constructorRunsRun' = constructorRunsRun + 1
            /\ \E built \in BOOLEAN :
                  IF built
                  THEN /\ constructed' = constructed + 1
                       /\ cacheResource' = constructorRuns'
                       /\ selfModel' = constructorRuns'
                       /\ pc' = "generate"
                       /\ UNCHANGED <<errors, fsDirs, fsFiles, transcription,
                                      outcome>>
                  ELSE /\ UNCHANGED <<cacheResource, selfModel, constructed>>
                       /\ IF ExceptException("StopException")
                          THEN /\ errors' = errors \o <<"load_error", "transcribe_error">>
                               /\ LeaveProcess("return", PyNone, fsFiles)
                          ELSE /\ errors' = Append(errors, "load_error")
                               /\ LeaveProcess("stop", PyNone, fsFiles)
    /\ UNCHANGED <<reqCount, uploadName, ffmpegOnPath, tempDir, file_extension,
                   input_path, transcription_path, convertCalls, convertRet,
                   ffmpegRuns, generateCalls, modelOut, result, persisted,
                   setupVars>>

\* transcribe, lines 146-159: model.generate returns or raises; the text is
\* extracted; process_audio_file returns it (lines 204-206).
TranscribeGenerate ==
    /\ pc = "generate"
    /\ generateCalls' = Append(generateCalls,
                               [model |-> selfModel, path |-> transcription_path])
    /\ \/ /\ modelOut' = "raised"
          /\ result' = NoResult
          /\ IF ExceptException("Exception")
             THEN /\ errors' = Append(errors, "transcribe_error")
                  /\ LeaveProcess("return", PyNone, fsFiles)
             ELSE /\ UNCHANGED errors
                  /\ LeaveProcess("exception", PyNone, fsFiles)
       \/ \E r \in ModelResults :
             /\ modelOut' = "result"
             /\ result' = r
             /\ UNCHANGED errors
             /\ LeaveProcess("return", ExtractText(r), fsFiles)
    /\ UNCHANGED <<reqCount, uploadName, ffmpegOnPath, tempDir, file_extension,
                   input_path, transcription_path, convertCalls, convertRet,
                   ffmpegRuns, transcribeCalls, selfModel, cacheResource,
                   constructorRuns, constructorRunsRun, persisted, constructed,
                   setupVars>>

\* main, lines 249-267: the transcript is shown, or "Transcription failed".
Render ==
    /\ pc = "render"
    /\ errors' = IF Truthy(transcription) THEN errors
                 ELSE Append(errors, "transcription_failed")
    /\ pc' = "done"
    /\ UNCHANGED <<reqCount, uploadName, ffmpegOnPath, tempDir, fsDirs, fsFiles,
                   file_extension, input_path, transcription_path, convertCalls,
                   convertRet, ffmpegRuns, transcribeCalls, generateCalls,
                   modelOut, result, selfModel, cacheResource, constructorRuns,
                   constructorRunsRun, transcription, outcome, persisted,
                   constructed, setupVars>>

SetupIdle ==
    /\ spc = "off"
    /\ envSharingMode = "unset"
    /\ envHeadless = "unset"
    /\ platformSystem = <<>>
    /\ installCalls = 0
    /\ aptRuns = 0
    /\ setupRet = "none"
    /\ exitCode = -1
    /\ foundAtStart = FALSE

AppIdle ==
    /\ reqCount = 0
    /\ uploadName = <<>>
    /\ tempDir = <<>>
    /\ fsDirs = {}
    /\ fsFiles = {}
    /\ file_extension = <<>>
    /\ input_path = <<>>
    /\ transcription_path = <<>>
    /\ convertCalls = <<>>
    /\ convertRet = "none"
    /\ ffmpegRuns = <<>>
    /\ transcribeCalls = <<>>
    /\ generateCalls = <<>>
    /\ modelOut = "none"
    /\ result = NoResult
    /\ errors = <<>>
    /\ selfModel = 0
    /\ cacheResource = 0
    /\ constructorRuns = 0
    /\ constructorRunsRun = 0
    /\ transcription = PyNone
    /\ outcome = "none"
    /\ persisted = FALSE
    /\ constructed = 0

\* The process has started; no script run has pressed the button yet.
Init ==
    /\ pc = "idle"
    /\ AppIdle
    /\ ffmpegOnPath \in BOOLEAN
    /\ SetupIdle

Next ==
    \/ ClickTranscribe
    \/ PersistUpload
    \/ Dispatch
    \/ Convert
    \/ TranscribeGetModel
    \/ TranscribeGenerate
    \/ Render

Spec == Init /\ [][Next]_vars


----------------------------------------------------------------------------
(* setup_ffmpeg.py *)

SharingModeValues == {"unset", "", "streamlit"}

HeadlessValues == {"unset", "true", "false", "True"}

PlatformSystems == { <<"L","i","n","u","x">>, <<"D","a","r","w","i","n">>,
                     <<"W","i","n","d","o","w","s">>, <<>> }

\* a detection that wants both variables
check_streamlit_cloud_Both(sharing, headless) ==
    sharing # "unset" /\ headless = "true"

\* check_streamlit_cloud, lines 76-79
check_streamlit_cloud(sharing, headless) ==
    sharing # "unset" \/ headless = "true"

InstallOutcomes == {"ok", "CalledProcessError_update", "CalledProcessError_install",
                    "TimeoutExpired_update", "TimeoutExpired_install",
                    "FileNotFoundError", "Exception"}

\* install_ffmpeg_linux, lines 32-65: the returned value and the number of
\* subprocess.run invocations
install_ffmpeg_linux(o) ==
    CASE o = "ok" -> [ret |-> TRUE, runs |-> 2]
      [] o \in {"CalledProcessError_install", "TimeoutExpired_install"}
                  -> [ret |-> FALSE, runs |-> 2]
      [] OTHER    -> [ret |-> FALSE, runs |-> 1]

\* setup_ffmpeg, lines 94-110
SetupCheckInstalled ==
    /\ spc = "start"
    /\ IF ffmpegOnPath
       THEN /\ setupRet' = "True"
            /\ spc' = "exit"
       ELSE /\ setupRet' = setupRet
            /\ spc' = "cloud"
    /\ UNCHANGED <<appVars, ffmpegOnPath, envSharingMode, envHeadless,
                   platformSystem, installCalls, aptRuns, exitCode, foundAtStart>>

\* setup_ffmpeg, lines 113-118
SetupCheckCloud ==
    /\ spc = "cloud"
    /\ IF check_streamlit_cloud(envSharingMode, envHeadless)
       THEN /\ setupRet' = "False"
            /\ spc' = "exit"
       ELSE /\ setupRet' = setupRet
            /\ spc' = "platform"
    /\ UNCHANGED <<appVars, ffmpegOnPath, envSharingMode, envHeadless,
                   platformSystem, installCalls, aptRuns, exitCode, foundAtStart>>

\* setup_ffmpeg, lines 121-136: only Linux is tried
SetupPlatform ==
    /\ spc = "platform"
    /\ spc' = IF LowerStr(platformSystem) = <<"l","i","n","u","x">>
              THEN "install" ELSE "manual"
    /\ UNCHANGED <<appVars, ffmpegOnPath, envSharingMode, envHeadless,
                   platformSystem, installCalls, aptRuns, setupRet, exitCode,
                   foundAtStart>>

\* setup_ffmpeg, lines 126-133, with the call of install_ffmpeg_linux; after
\* a completed installation the tool is looked for again
SetupInstall ==
    /\ spc = "install"
    /\ \E o \in InstallOutcomes, found \in BOOLEAN :
          LET r == install_ffmpeg_linux(o)
          IN  /\ installCalls' = installCalls + 1
              /\ aptRuns' = aptRuns + r.runs
              /\ ffmpegOnPath' = IF r.ret THEN found ELSE ffmpegOnPath
              /\ IF r.ret /\ ffmpegOnPath'
                 THEN /\ setupRet' = "True"
                      /\ spc' = "exit"
                 ELSE /\ setupRet' = setupRet
                      /\ spc' = "manual"
    /\ UNCHANGED <<appVars, envSharingMode, envHeadless, platformSystem,
                   exitCode, foundAtStart>>

\* setup_ffmpeg, lines 138-154: manual instructions
SetupManual ==
    /\ spc = "manual"
    /\ setupRet' = "False"
    /\ spc' = "exit"
    /\ UNCHANGED <<appVars, ffmpegOnPath, envSharingMode, envHeadless,
                   platformSystem, installCalls, aptRuns, exitCode, foundAtStart>>

\* lines 157-159: sys.exit(0 if success else 1)
SetupExit ==
    /\ spc = "exit"
    /\ exitCode' = IF setupRet = "True" THEN 0 ELSE 1
    /\ spc' = "done"
    /\ UNCHANGED <<appVars, ffmpegOnPath, envSharingMode, envHeadless,
                   platformSystem, installCalls, aptRuns, setupRet,
                   foundAtStart>>

\* The script is started in some environment.
InitSetup ==
    /\ pc = "idle"
    /\ AppIdle
    /\ ffmpegOnPath \in BOOLEAN
    /\ spc = "start"
    /\ envSharingMode \in SharingModeValues
    /\ envHeadless \in HeadlessValues
    /\ platformSystem \in PlatformSystems
    /\ installCalls = 0
    /\ aptRuns = 0
    /\ setupRet = "none"
    /\ exitCode = -1
    /\ foundAtStart = ffmpegOnPath

NextSetup ==
    \/ SetupCheckInstalled
    \/ SetupCheckCloud
    \/ SetupPlatform
    \/ SetupInstall
    \/ SetupManual
    \/ SetupExit

SpecSetup == InitSetup /\ [][NextSetup]_vars


----------------------------------------------------------------------------
(* Properties of the request path (Spec) *)

\* process_audio_file has been entered in the current run and left again
Left == reqCount > 0 /\ pc \in {"render", "done"}

\* the current upload's extension, lowercased, is natively supported
NativeUpload == LowerStr(Suffix(uploadName)) \in FUNASR_SUPPORTED_FORMATS

ConvertedPath == PathJoin(tempDir, ConvertedWav)

UploadPath == PathJoin(tempDir, uploadName)

Count(seq, x) == Cardinality({i \in 1..Len(seq) : seq[i] = x})

\* C1, as stated: for every upload whose lowercase extension is not natively
\* supported, once process_audio_file has been left the converter was invoked
\* exactly once, on <temp_dir>/<name> and <temp_dir>/converted.wav; transcribe
\* was called only after a successful conversion; a failed conversion made
\* process_audio_file return None without a call of transcribe.
C1_ExactlyOnceForEveryUpload ==
    (Left /\ ~NativeUpload) =>
        /\ Len(convertCalls) = 1
        /\ convertCalls[1] = [input |-> UploadPath, output |-> ConvertedPath]
        /\ Inside(convertCalls[1].input, tempDir)
        /\ (transcribeCalls # <<>> => convertRet = "True")
        /\ (convertRet = "False" =>
               outcome = "return" /\ transcription = PyNone /\ transcribeCalls = <<>>)

\* C1, amended: for every upload whose lowercase extension is not natively
\* supported the converter is invoked at most once, always on <temp_dir>/<name>
\* (inside the temporary directory) and <temp_dir>/converted.wav, and exactly
\* once when process_audio_file is left after the upload was persisted (when
\* writing the upload raises, the converter is not invoked at all);
\* transcribe is called only after convert_to_wav returned True; when it
\* returned False, process_audio_file returns None and transcribe is not called.
C1_ConvertOnceThenTranscribe ==
    (reqCount > 0 /\ ~NativeUpload) =>
        /\ Len(convertCalls) <= 1
        /\ \A i \in 1..Len(convertCalls) :
              /\ convertCalls[i] = [input |-> UploadPath, output |-> ConvertedPath]
              /\ Inside(convertCalls[i].input, tempDir)
              /\ Inside(convertCalls[i].output, tempDir)
        /\ (Left /\ persisted => Len(convertCalls) = 1)
        /\ (~persisted => convertCalls = <<>> /\ transcribeCalls = <<>>)
        /\ (transcribeCalls # <<>> =>
               /\ convertRet = "True"
               /\ Len(convertCalls) = 1
               /\ \A i \in 1..Len(transcribeCalls) : transcribeCalls[i] = ConvertedPath)
        /\ (convertRet = "False" =>
               /\ Left
               /\ outcome = "return"
               /\ transcription = PyNone
               /\ transcribeCalls = <<>>
               /\ generateCalls = <<>>)

\* a non-native upload was converted and the converted file transcribed
C1_Witness ==
    /\ pc = "done"
    /\ ~NativeUpload
    /\ uploadName = <<"c","l","i","p",".","m","p","4">>
    /\ Len(convertCalls) = 1
    /\ convertRet = "True"
    /\ transcribeCalls = <<ConvertedPath>>

\* C2: for every upload whose extension, lowercased, is natively supported
\* (whatever its case in the declared name), the converter and the external
\* tool are never invoked, and transcribe is called with the path the upload
\* was persisted to, <temp_dir>/<name>, which exists when transcribe is called.
C2_NativeNeverConverted ==
    (reqCount > 0 /\ NativeUpload) =>
        /\ convertCalls = <<>>
        /\ ffmpegRuns = <<>>
        /\ convertRet = "none"
        /\ pc # "convert"
        /\ \A i \in 1..Len(transcribeCalls) : transcribeCalls[i] = UploadPath
        /\ (pc \in {"transcribe", "generate"} =>
               transcription_path = UploadPath /\ UploadPath \in fsFiles)
        /\ (pc = "generate" \/ (Left /\ persisted) => Len(transcribeCalls) = 1)

\* an upload with an upper-case native extension went to the model as it is
C2_Witness ==
    /\ pc = "done"
    /\ uploadName = <<"c","l","i","p",".","W","A","V">>
    /\ convertCalls = <<>>
    /\ transcribeCalls = <<UploadPath>>
    /\ Len(generateCalls) = 1

\* C3: once process_audio_file has been left (by a return with a transcript,
\* a return of None after a failed conversion or transcription, an exception
\* while the upload is written, or the script stop of a failed model load) the
\* temporary directory of the request and every file in it are gone; while
\* process_audio_file is running the directory exists.
C3_TempDirRemoved ==
    /\ (pc \in {"idle", "render", "done"} => fsDirs = {} /\ fsFiles = {})
    /\ (Left => tempDir \notin fsDirs /\ \A f \in fsFiles : ~Inside(f, tempDir))
    /\ (pc \in {"persist", "dispatch", "convert", "transcribe", "generate"} =>
           fsDirs = {tempDir})

\* the script was stopped inside transcribe, after a conversion wrote its output
C3_Witness ==
    /\ pc = "done"
    /\ outcome = "stop"
    /\ convertRet = "True"
    /\ tempDir \notin fsDirs

\* the run ended without a transcript for one of the listed reasons
ToolUnavailable  == convertRet = "False" /\ ~ffmpegOnPath
ConversionFailed == convertRet = "False" /\ ffmpegOnPath
GenerateRaised   == modelOut = "raised"
LoadFailed       == constructorRunsRun > 0 /\ selfModel = 0
EmptyResult      == modelOut = "result" /\ ~Truthy(transcription)

FailedRun ==
    /\ pc = "done"
    /\ reqCount > 0
    /\ ToolUnavailable \/ ConversionFailed \/ GenerateRaised \/ LoadFailed \/ EmptyResult

NoRetry ==
    /\ Len(convertCalls) <= 1
    /\ Len(ffmpegRuns) <= 1
    /\ Len(transcribeCalls) <= 1
    /\ constructorRunsRun <= 1
    /\ Len(generateCalls) <= 1

\* C4, as stated: in every failing run the converter and the model are each
\* invoked at most once and exactly one error message is shown.
C4_ExactlyOneMessage == FailedRun => NoRetry /\ Len(errors) = 1

\* C4, amended: in every failing run the converter, the external tool, the
\* model constructor and model.generate are each invoked at most once.  The
\* failure is shown once for an empty result ("Transcription failed") and for
\* a failed model load ("Error loading model", after which the script stops);
\* it is shown twice for a missing tool, a failed conversion and an exception
\* of model.generate: the message at the point of failure, then main's
\* "Transcription failed".
C4_NoRetryReportedOnceOrTwice ==
    FailedRun =>
        /\ NoRetry
        /\ (ToolUnavailable  => errors = <<"ffmpeg_missing", "transcription_failed">>)
        /\ (ConversionFailed =>
               \/ errors = <<"ffmpeg_error", "transcription_failed">>
               \/ errors = <<"conversion_unexpected", "transcription_failed">>)
        /\ (GenerateRaised   => errors = <<"transcribe_error", "transcription_failed">>)
        /\ (LoadFailed       => errors = <<"load_error">>)
        /\ (EmptyResult      => errors = <<"transcription_failed">>)

\* the external tool ran once, failed, and two messages were shown
C4_Witness ==
    /\ FailedRun
    /\ ConversionFailed
    /\ Len(ffmpegRuns) = 1
    /\ Len(errors) = 2

\* C5, as stated: whenever the underlying model raised, in generate or while
\* it was constructed, transcribe showed its message and returned None.
C5_AlwaysReturnsFailure ==
    (Left /\ (GenerateRaised \/ LoadFailed)) =>
        /\ outcome = "return"
        /\ transcription = PyNone
        /\ Count(errors, "transcribe_error") = 1

\* C5, amended: an exception raised by model.generate is caught in
\* transcribe, which shows "Error during transcription" and returns None.  An
\* exception raised while the model is constructed is caught in
\* load_funasr_model, which shows "Error loading model" and stops the script:
\* transcribe does not return, its own handler does not run, generate is not
\* called and nothing more is shown in that run.
C5_GenerateCaughtLoadStops ==
    /\ GenerateRaised =>
          /\ Left
          /\ outcome = "return"
          /\ transcription = PyNone
          /\ Count(errors, "transcribe_error") = 1
          /\ Count(errors, "load_error") = 0
    /\ LoadFailed =>
          /\ pc = "done"
          /\ outcome = "stop"
          /\ generateCalls = <<>>
          /\ errors # <<>>
          /\ errors[Len(errors)] = "load_error"
          /\ Count(errors, "load_error") = 1
          /\ Count(errors, "transcribe_error") = 0
          /\ Count(errors, "transcription_failed") = 0

\* the construction of the model failed on first use and the script stopped
C5_Witness ==
    /\ LoadFailed
    /\ pc = "done"
    /\ outcome = "stop"
    /\ Len(transcribeCalls) = 1

\* C6: whenever convert_to_wav is called while the tool is not on the search
\* path, it shows the installation guidance first, returns False, and the
\* external tool is not invoked.
C6_ToolAbsentNoInvocation ==
    (convertCalls # <<>> /\ ~ffmpegOnPath) =>
        /\ convertRet = "False"
        /\ ffmpegRuns = <<>>
        /\ errors # <<>>
        /\ errors[1] = "ffmpeg_missing"
        /\ Count(errors, "ffmpeg_missing") = 1
        /\ ConvertedPath \notin fsFiles

\* convert_to_wav was called without the tool
C6_Witness ==
    /\ pc = "render"
    /\ ~ffmpegOnPath
    /\ Len(convertCalls) = 1
    /\ convertRet = "False"
    /\ ffmpegRuns = <<>>

\* C7: when model.generate returned, the value transcribe returns is taken
\* from the first element of the result: the text field of a dict that has
\* one; else the element itself when it is a string; else its str(); and None
\* when the result is None or empty.  {"text": "hello"} gives "hello",
\* "hello" gives "hello", 42 gives "42".
C7_ExtractionOrder ==
    (modelOut = "result" /\ Left) =>
        IF result.isNone \/ Len(result.items) = 0
        THEN transcription = PyNone
        ELSE LET first == result.items[1]
             IN  /\ transcription.t = "str"
                 /\ (first.t = "dict" /\ "text" \in DOMAIN first.d =>
                        transcription.s = first.d["text"])
                 /\ (first.t = "str" => transcription.s = first.s)
                 /\ (first = PyDict([k \in {"text"} |-> "hello"]) =>
                        transcription.s = "hello")
                 /\ (first = PyStr("hello") => transcription.s = "hello")
                 /\ (first = PyInt(42)  => transcription.s = "42")
                 /\ (first = PyInt(0)   => transcription.s = "0")
                 /\ (first = PyInt(120) => transcription.s = "120")
                 /\ (first = PyInt(-7)  => transcription.s = "-7")
                 /\ (first = PyNone     => transcription.s = "None")
                 /\ (first = PyDict(NoKeys) => transcription.s = "{}")
                 /\ (first = PyDict([k \in {"key"} |-> "hello"]) =>
                        transcription.s = "{'key': 'hello'}")

\* generate returned [42] and the transcript shown is "42"
C7_Witness ==
    /\ pc = "done"
    /\ modelOut = "result"
    /\ result = [isNone |-> FALSE, items |-> <<PyInt(42)>>]
    /\ transcription = PyStr("42")
    /\ errors = <<>>

\* C8, as stated: the constructor of the underlying model runs at most once
\* per process.
C8_ConstructorRunsAtMostOnce == constructorRuns <= 1

\* C8, amended: the constructor of the underlying model returns a model at
\* most once per process and runs at most once per request.  A construction
\* that raised is not cached, so the constructor runs again on the next
\* request's transcribe call; once a construction has succeeded it does not run
\* again, and every later call of model.generate, in any request, is made on
\* that one cached instance.
C8_ConstructedAtMostOnce ==
    /\ constructed <= 1
    /\ constructorRunsRun <= 1
    /\ (constructed = 0 <=> cacheResource = 0)
    /\ (cacheResource # 0 => cacheResource = constructorRuns)
    /\ (selfModel # 0 => selfModel = cacheResource)
    /\ \A i \in 1..Len(generateCalls) :
          generateCalls[i].model # 0 /\ generateCalls[i].model = cacheResource

\* a later request transcribed on the instance an earlier request built
C8_Witness ==
    /\ reqCount = 2
    /\ pc = "done"
    /\ constructorRunsRun = 0
    /\ Len(generateCalls) = 1
    /\ generateCalls[1].model = cacheResource
    /\ constructorRuns = 1

\* C10: whenever the converter is invoked, its output path
\* <temp_dir>/converted.wav differs from its input path <temp_dir>/<name>, also
\* when letter case is ignored; an upload named converted.wav in any letter
\* case is natively supported and is never converted.
C10_OutputIsNotInput ==
    /\ \A i \in 1..Len(convertCalls) :
          /\ convertCalls[i].input = UploadPath
          /\ convertCalls[i].output = ConvertedPath
          /\ convertCalls[i].input # convertCalls[i].output
          /\ LowerStr(convertCalls[i].input) # LowerStr(convertCalls[i].output)
    /\ \A i \in 1..Len(ffmpegRuns) : ffmpegRuns[i].input # ffmpegRuns[i].output
    /\ (reqCount > 0 /\ LowerStr(uploadName) = ConvertedWav =>
           NativeUpload /\ convertCalls = <<>> /\ pc # "convert")

\* an upload named converted.wav.mp4 was converted next to its own file
C10_Witness ==
    /\ uploadName = ConvertedWav \o <<".","m","p","4">>
    /\ Len(ffmpegRuns) = 1
    /\ ffmpegRuns[1].output = ConvertedPath
    /\ UploadPath \in fsFiles
    /\ ConvertedPath \in fsFiles

----------------------------------------------------------------------------
(* Properties of setup_ffmpeg.py (SpecSetup) *)

\* one of the variables of a managed hosting environment is set
ManagedHosting == envSharingMode # "unset" \/ envHeadless = "true"

\* C9: when the script starts with the tool absent in a managed hosting
\* environment, on any operating system, install_ffmpeg_linux is never called,
\* no package manager command is run, setup_ffmpeg returns False and the
\* script exits with code 1.
C9_ManagedHostingNoInstall ==
    (ManagedHosting /\ ~foundAtStart /\ spc # "start") =>
        /\ installCalls = 0
        /\ aptRuns = 0
        /\ ~ffmpegOnPath
        /\ spc \in {"cloud", "exit", "done"}
        /\ (spc \in {"exit", "done"} => setupRet = "False")
        /\ (spc = "done" => exitCode = 1)

\* the script ended with code 1 on a managed Linux host without the tool
C9_Witness ==
    /\ spc = "done"
    /\ ManagedHosting
    /\ envSharingMode = "unset"
    /\ ~foundAtStart
    /\ LowerStr(platformSystem) = <<"l","i","n","u","x">>
    /\ exitCode = 1
    /\ installCalls = 0

=============================================================================
